---- MODULE Spec2Model ----
(***************************************************************************)
(* Model of the spectral transform engine of rusty-brain: the complex and  *)
(* real FFT family (src/src/fft.rs), the overlap-add FIR filter            *)
(* (src/src/filter.rs) and the Stockwell transform (src/src/s_transform.rs)*)
(*                                                                         *)
(* Arithmetic.  The program computes in f32 and Complex<f32>.  The model   *)
(* computes exactly, without rounding: an f32 is an element of the prime   *)
(* field GF(FieldP), written as its residue 0..FieldP-1, and a Complex is  *)
(* the pair <<re, im>> with the products of Complex::mul.  FieldP - 1 is   *)
(* divisible by 64 and by every n <= 10, so the field holds cos(2 pi k/n)  *)
(* and sin(2 pi k/n) for those n as exact elements obeying every algebraic *)
(* identity of the real cosines and sines, and division by a non-zero      *)
(* length is exact.  An identity over the reals therefore holds in the     *)
(* model, and two values that differ in the model differ over the reals.   *)
(* Small integers n are the residues n (non-negative) and FieldP + n       *)
(* (negative).  Rounding error of f32 is outside the model: "equal" in a   *)
(* property means equal in exact arithmetic.                               *)
(*                                                                         *)
(* Panics.  Every array-valued routine returns a record [ok, v]: ok is     *)
(* FALSE when the Rust code panics (index or slice out of bounds, unwrap   *)
(* of None, arithmetic overflow of usize), and then v is the empty array.  *)
(***************************************************************************)
EXTENDS Integers, Sequences, FiniteSets, TLC

\* ------------------------------------------------------------------ bounds
MaxSample == 1      \* samples and coefficients are drawn from 0..MaxSample
MaxPeriod == 2      \* an input array repeats a pattern of 1..MaxPeriod samples
MaxLen == 8         \* inputs of the transforms have 0..MaxLen elements
MaxM == 2           \* a filter has 0..MaxM coefficients
MaxBlocks == 1      \* a filtered signal is up to MaxBlocks whole blocks and a sample long
MaxCalls == 3       \* one filter processes up to MaxCalls signals in a row

\* ------------------------------------------------------------- f32 as GF(p)
FieldP == 20161
FieldGen == 13      \* a generator of the multiplicative group of GF(FieldP)

FAdd(a, b) == (a + b) % FieldP
FSub(a, b) == (a - b + FieldP) % FieldP
FMul(a, b) == (a * b) % FieldP
FNeg(a) == (FieldP - a) % FieldP
FromInt(z) == z % FieldP

RECURSIVE FPow(_, _)
FPow(a, e) ==
    IF e = 0 THEN 1
    ELSE LET h == FPow(a, e \div 2)
             s == FMul(h, h)
         IN  IF e % 2 = 1 THEN FMul(s, a) ELSE s

FInv(a) == FPow(a, FieldP - 2)
FDiv(a, b) == FMul(a, FInv(b))
\* 1/n for the array lengths n the program divides by
InvTable == [n \in 1..64 |-> FInv(n)]
FDivLen(a, n) == FMul(a, InvTable[n])

\* e^{i * 2 pi / n} is the pair (cos, sin); in GF(p) with I^2 = -1 and w a
\* primitive n-th root of unity, cos = (w + 1/w)/2 and sin = (w - 1/w)/(2I).
\* The values are tabulated once for the orders n the field supports.
RootOfUnity(n) == FPow(FieldGen, (FieldP - 1) \div n)
ImagUnit == RootOfUnity(4)
TurnOrders == {n \in 1..64 : (FieldP - 1) % n = 0}
CosTable ==
    [n \in TurnOrders |->
       [k \in 0..(n - 1) |->
          LET w == FPow(RootOfUnity(n), k)
          IN  FDiv(FAdd(w, FInv(w)), 2)]]
SinTable ==
    [n \in TurnOrders |->
       [k \in 0..(n - 1) |->
          LET w == FPow(RootOfUnity(n), k)
          IN  FDiv(FSub(w, FInv(w)), FMul(2, ImagUnit))]]
\* cos(2 pi k / n) and sin(2 pi k / n) for any integer k (k < 0 turns clockwise)
CosTurn(k, n) == CosTable[n][k % n]
SinTurn(k, n) == SinTable[n][k % n]

\* ------------------------------------------------------------ Complex<f32>
CNew(re, im) == <<re, im>>
Re(z) == z[1]
Im(z) == z[2]
CZero == CNew(0, 0)
CFromReal(r) == CNew(r, 0)
CAdd(a, b) == CNew(FAdd(Re(a), Re(b)), FAdd(Im(a), Im(b)))
CSub(a, b) == CNew(FSub(Re(a), Re(b)), FSub(Im(a), Im(b)))
CMul(a, b) ==
    CNew(FSub(FMul(Re(a), Re(b)), FMul(Im(a), Im(b))),
         FAdd(FMul(Re(a), Im(b)), FMul(Im(a), Re(b))))
CConj(z) == CNew(Re(z), FNeg(Im(z)))
CScale(z, r) == CNew(FMul(Re(z), r), FMul(Im(z), r))
CDivLen(z, n) == CNew(FDivLen(Re(z), n), FDivLen(Im(z), n))

\* ------------------------------------------------------------------ arrays
\* An Array1 is a sequence; index i of the code is position i + 1.
Ok(v) == [ok |-> TRUE, v |-> v]
Panic == [ok |-> FALSE, v |-> <<>>]

IsPow2(n) == \E d \in 0..n : 2^d = n

\* self.slice(s![..; 2]) and self.slice(s![1..; 2])
EvenSlice(x) == [j \in 1..((Len(x) + 1) \div 2) |-> x[2 * j - 1]]
\* A faulty variant of OddSlice that begins at index 0.
OddSliceFromZero(x) == [j \in 1..(Len(x) \div 2) |-> x[2 * j - 1]]
\* self.slice(s![1..; 2])
OddSlice(x) == [j \in 1..(Len(x) \div 2) |-> x[2 * j]]

\* Complex::new(angle.cos(), angle.sin()) with angle = -2 pi k / n
Twiddle(k, n) == CNew(CosTurn(-k, n), SinTurn(-k, n))

\* -------------------------------------------------------------- FFT family
\* FourierTransform::dft, and RealFourierTransform::dft after the lift to Complex
Dft(x) ==
    LET n == Len(x)
        term(k, t) == CMul(Twiddle(k * t, n), x[t + 1])
        Sum[k \in 0..(n - 1), t \in 0..n] ==
            IF t = 0 THEN CZero ELSE CAdd(Sum[k, t - 1], term(k, t - 1))
    IN  Ok([j \in 1..n |-> Sum[j - 1, n]])

\* Faulty variants of Combine.  SameSign adds in both halves; ConjOdd conjugates
\* the odd half's coefficient; EqualHalves also reads index n/2 of fft_even,
\* which an odd n has and fft_odd lacks.
CombineSameSign(fft_even, fft_odd, n) ==
    LET h == n \div 2
        lo(k) == CAdd(fft_even[k + 1], CMul(Twiddle(k, n), fft_odd[k + 1]))
    IN  IF h > Len(fft_even) \/ h > Len(fft_odd) THEN Panic
        ELSE Ok([j \in 1..n |->
                   IF j <= h THEN lo(j - 1)
                   ELSE IF j <= 2 * h THEN lo(j - 1 - h)
                   ELSE CZero])
CombineConjOdd(fft_even, fft_odd, n) ==
    LET h == n \div 2
        lo(k) == CAdd(fft_even[k + 1], CMul(Twiddle(k, n), CConj(fft_odd[k + 1])))
        hi(k) == CSub(fft_even[k + 1], CMul(Twiddle(k, n), CConj(fft_odd[k + 1])))
    IN  IF h > Len(fft_even) \/ h > Len(fft_odd) THEN Panic
        ELSE Ok([j \in 1..n |->
                   IF j <= h THEN lo(j - 1)
                   ELSE IF j <= 2 * h THEN hi(j - 1 - h)
                   ELSE CZero])
CombineEqualHalves(fft_even, fft_odd, n) ==
    LET h == Len(fft_even)
        lo(k) == CAdd(fft_even[k + 1], CMul(Twiddle(k, n), fft_odd[k + 1]))
        hi(k) == CSub(fft_even[k + 1], CMul(Twiddle(k, n), fft_odd[k + 1]))
    IN  IF h > Len(fft_odd) THEN Panic
        ELSE Ok([j \in 1..n |->
                   IF j <= h THEN lo(j - 1)
                   ELSE IF j <= 2 * h THEN hi(j - 1 - h)
                   ELSE CZero])

\* FourierTransform::fft, lines 85-95: the butterflies over k in 0..n/2.  An
\* index past the end of fft_even or fft_odd panics; an index of result the
\* loop never reaches keeps the zero of Array1::zeros.
Combine(fft_even, fft_odd, n) ==
    LET h == n \div 2
        lo(k) == CAdd(fft_even[k + 1], CMul(Twiddle(k, n), fft_odd[k + 1]))
        hi(k) == CSub(fft_even[k + 1], CMul(Twiddle(k, n), fft_odd[k + 1]))
    IN  IF h > Len(fft_even) \/ h > Len(fft_odd) THEN Panic
        ELSE Ok([j \in 1..n |->
                   IF j <= h THEN lo(j - 1)
                   ELSE IF j <= 2 * h THEN hi(j - 1 - h)
                   ELSE CZero])

\* FourierTransform::fft
RECURSIVE Fft(_)
Fft(x) ==
    LET n == Len(x)
    IN  IF n = 1 THEN Ok(<<x[1]>>)
        ELSE IF n = 0 THEN Panic   \* s![1..; 2] begins past the end of the axis
        ELSE
          LET fft_even == Fft(EvenSlice(x))
              fft_odd == Fft(OddSlice(x))
          IN  IF ~fft_even.ok \/ ~fft_odd.ok THEN Panic
              ELSE Combine(fft_even.v, fft_odd.v, n)

\* A faulty variant of Ifft that leaves out the division by n.
IfftUnscaled(x) ==
    LET n == Len(x)
        f == Fft([j \in 1..n |-> CConj(x[j])])
    IN  IF ~f.ok THEN Panic
        ELSE Ok([j \in 1..n |-> CConj(f.v[j])])

\* InverseFourierTransform::ifft
Ifft(x) ==
    LET n == Len(x)
        f == Fft([j \in 1..n |-> CConj(x[j])])
    IN  IF ~f.ok THEN Panic
        ELSE Ok([j \in 1..n |-> CDivLen(CConj(f.v[j]), n)])

\* A faulty variant of Rfft that lifts a sample to the imaginary axis.
RfftImaginary(s) == Fft([j \in 1..Len(s) |-> CNew(0, s[j])])

\* RealFourierTransform::rfft
Rfft(s) == Fft([j \in 1..Len(s) |-> CNew(s[j], 0)])

\* A faulty variant of Irfft that conjugates the spectrum before ifft.
IrfftConjugated(x) ==
    LET y == Ifft([j \in 1..Len(x) |-> CConj(x[j])])
    IN  IF ~y.ok THEN Panic ELSE Ok([j \in 1..Len(y.v) |-> Re(y.v[j])])

\* RealInverseFourierTransform::irfft
Irfft(x) ==
    LET y == Ifft(x)
    IN  IF ~y.ok THEN Panic ELSE Ok([j \in 1..Len(y.v) |-> Re(y.v[j])])

\* ---------------------------------------------------------------- FIR filter
\* usize::next_power_of_two: the smallest power of two >= m (1 for m = 0)
RECURSIVE NextPowerOfTwo(_)
NextPowerOfTwo(m) == IF m <= 1 THEN 1 ELSE 2 * NextPowerOfTwo((m + 1) \div 2)

\* FIRFilter::process, lines 22-24: n and l for m coefficients
TransformLen(m) == 8 * NextPowerOfTwo(m)
\* A faulty variant of BlockLen that leaves no room for the filter's tail.
BlockLenNoTail(m) == TransformLen(m)
\* FIRFilter::process, line 24
BlockLen(m) == TransformLen(m) - m + 1

\* A faulty variant of OutputLen, one sample too long.
OutputLenOffByOne(len, m) == len + m

\* signal.len() + m - 1, line 30: below zero the usize subtraction overflows
OutputLen(len, m) == len + m - 1

\* A faulty variant of AddBlock that stores the block over what is there.
AddBlockOverwrite(output, y, start, n) ==
    LET end == IF start + n < Len(output) THEN start + n ELSE Len(output)
    IN  IF start > Len(output) THEN Panic
        ELSE Ok([j \in 1..Len(output) |->
                   IF j > start /\ j <= end /\ j - start <= Len(y)
                   THEN y[j - start]
                   ELSE output[j]])

\* lines 44-50: add block y into output[start..end]; zip stops at the shorter
AddBlock(output, y, start, n) ==
    LET end == IF start + n < Len(output) THEN start + n ELSE Len(output)
    IN  IF start > Len(output) THEN Panic
        ELSE Ok([j \in 1..Len(output) |->
                   IF j > start /\ j <= end /\ j - start <= Len(y)
                   THEN FAdd(output[j], y[j - start])
                   ELSE output[j]])

\* lines 33-42: one chunk, zero-padded to n, through rfft, the product with H
\* and irfft
FilterChunk(chunk, H, n) ==
    IF Len(chunk) > n THEN Panic     \* s![..chunk.len()] past the end of padded_chunk
    ELSE LET padded_chunk == [j \in 1..n |-> IF j <= Len(chunk) THEN chunk[j] ELSE 0]
             X == Rfft(padded_chunk)
         IN  IF ~X.ok THEN Panic
             ELSE Irfft([j \in 1..n |-> CMul(X.v[j], H[j])])

\* lines 32-51: the loop over signal.axis_chunks_iter(Axis(0), l), from chunk i on
RECURSIVE ProcessChunks(_, _, _, _, _, _)
ProcessChunks(signal, H, n, l, i, output) ==
    IF ~output.ok \/ i * l >= Len(signal) THEN output
    ELSE LET last == IF (i + 1) * l < Len(signal) THEN (i + 1) * l ELSE Len(signal)
             chunk == SubSeq(signal, i * l + 1, last)
             y == FilterChunk(chunk, H, n)
         IN  IF ~y.ok THEN Panic
             ELSE ProcessChunks(signal, H, n, l, i + 1, AddBlock(output.v, y.v, i * l, n))

\* FIRFilter::process
Process(coefs, signal) ==
    LET m == Len(coefs)
        n == TransformLen(m)
        l == BlockLen(m)
        padded_coef == [j \in 1..n |-> IF j <= m THEN coefs[j] ELSE 0]
        H == Rfft(padded_coef)
        size == OutputLen(Len(signal), m)
    IN  IF ~H.ok \/ size < 0 THEN Panic
        ELSE ProcessChunks(signal, H.v, n, l, 0, Ok([j \in 1..size |-> 0]))

\* ------------------------------------------------------- Stockwell transform
\* An array together with the number of times each index has been assigned.
Fresh(n, z) == [ok |-> TRUE, v |-> [j \in 1..n |-> z], w |-> [j \in 1..n |-> 0]]
Failed == [ok |-> FALSE, v |-> <<>>, w |-> <<>>]
Store(a, i, val) ==
    IF ~a.ok \/ i < 0 \/ i >= Len(a.v) THEN Failed
    ELSE [ok |-> TRUE, v |-> [a.v EXCEPT ![i + 1] = val], w |-> [a.w EXCEPT ![i + 1] = @ + 1]]

RECURSIVE Factorial(_)
Factorial(k) == IF k <= 1 THEN 1 ELSE k * Factorial(k - 1)
\* gauss(n, m) = exp(-2 pi^2 m^2 / n^2), which st calls as gauss(f, i) with
\* 1 <= f <= n/2.  Every exponent is a whole multiple of -2 pi^2 / GaussDen, and
\* ExpUnit stands for exp(-2 pi^2 / GaussDen): a power of it is exact, with
\* exp(0) = 1 and exp(a + b) = exp(a) * exp(b).
GaussDen == Factorial(MaxLen \div 2) * Factorial(MaxLen \div 2)
ExpUnit == FieldGen
Gauss(f, m) == FPow(ExpUnit, (m * m * GaussDen) \div (f * f))

\* A faulty variant of WgaussFill that leaves out the mirrored half.
RECURSIVE WgaussFillOneSided(_, _, _, _)
WgaussFillOneSided(w, f, n, i) ==
    IF i > n \div 2 THEN w
    ELSE WgaussFillOneSided(Store(w, i, Gauss(f, i)), f, n, i + 1)

\* st, lines 42-48: the window of row f, filled in the order of the loop
RECURSIVE WgaussFill(_, _, _, _)
WgaussFill(w, f, n, i) ==
    IF i > n \div 2 THEN w
    ELSE WgaussFill(Store(Store(w, i, Gauss(f, i)), n - i, Gauss(f, i)), f, n, i + 1)
Wgauss(f, n) == WgaussFill(Store(Fresh(n, 0), 0, Gauss(f, 0)), f, n, 1)

\* st, lines 52-61: row f of the result
StRow(H, f, n) ==
    LET wgauss == Wgauss(f, n)
        turned(i) == IF i + f >= n THEN i + f - n ELSE i + f
    IN  IF ~wgauss.ok THEN Panic
        ELSE Ifft([j \in 1..n |-> CScale(H[turned(j - 1) + 1], wgauss.v[j])])

\* self.mean(): None for an empty array
RECURSIVE SumReal(_, _)
SumReal(s, k) == IF k = 0 THEN 0 ELSE FAdd(SumReal(s, k - 1), s[k])
Mean(s) == FDivLen(SumReal(s, Len(s)), Len(s))

\* st, lines 40-64: the loop over f in 1..=n/2, from row f on
RECURSIVE StRows(_, _, _, _)
StRows(result, H, n, f) ==
    IF ~result.ok \/ f > n \div 2 THEN result
    ELSE LET inverse == StRow(H, f, n)
         IN  IF ~inverse.ok THEN Failed
             ELSE StRows(Store(result, f, inverse.v), H, n, f + 1)

\* STransform::st: v is the matrix as its rows, w the assignments of each row
St(x) ==
    LET n == Len(x)
        H == Rfft(x)
    IN  IF ~H.ok \/ n = 0 THEN Failed
        ELSE StRows(Store(Fresh(n \div 2 + 1, [j \in 1..n |-> CZero]), 0,
                          [j \in 1..n |-> CNew(Mean(x), 0)]),
                    H.v, n, 1)

RECURSIVE SumComplex(_, _)
SumComplex(s, k) == IF k = 0 THEN CZero ELSE CAdd(SumComplex(s, k - 1), s[k])

\* ist, lines 80-82
RECURSIVE IstSums(_, _, _)
IstSums(result, S, f) ==
    IF ~result.ok \/ f >= Len(S) THEN result
    ELSE IstSums(Store(result, f, SumComplex(S[f + 1], Len(S[f + 1]))), S, f + 1)

\* A faulty variant of IstMirror that copies without conjugating.
RECURSIVE IstMirrorNoConj(_, _, _)
IstMirrorNoConj(result, ntimes, i) ==
    IF ~result.ok \/ i >= ntimes THEN result
    ELSE IstMirrorNoConj(Store(result, i, result.v[ntimes - i + 1]), ntimes, i + 1)

\* ist, lines 84-86
RECURSIVE IstMirror(_, _, _)
IstMirror(result, ntimes, i) ==
    IF ~result.ok \/ i >= ntimes THEN result
    ELSE IstMirror(Store(result, i, CConj(result.v[ntimes - i + 1])), ntimes, i + 1)

\* A faulty variant of IstSpectrum that also mirrors the upper half back
\* onto the lower half.
IstSpectrumMirrorBoth(S) ==
    LET ntimes == Len(S[1])
    IN  IstMirror(IstMirror(IstSums(Fresh(ntimes, CZero), S, 0), ntimes, ntimes \div 2 + 1),
                  ntimes, 1)

\* the spectrum ist rebuilds before its ifft, with the assignments of each index
IstSpectrum(S) ==
    LET ntimes == Len(S[1])
    IN  IstMirror(IstSums(Fresh(ntimes, CZero), S, 0), ntimes, ntimes \div 2 + 1)

\* InverseSTransform::ist
Ist(S) ==
    LET result == IstSpectrum(S)
    IN  IF ~result.ok THEN Panic ELSE Irfft(result.v)

\* ------------------------------------------------------------------ inputs
\* An input array is a pattern of 1..MaxPeriod samples repeated to its length,
\* with at most one sample raised by one.
Samples == 0..MaxSample
Patterns(p) == [1..p -> Samples]
AllPatterns == UNION {Patterns(p) : p \in 1..MaxPeriod}
Extend(pat, n) == [j \in 1..n |-> pat[((j - 1) % Len(pat)) + 1]]
WithImpulse(s, pos) == [j \in 1..Len(s) |-> IF j = pos THEN s[j] + 1 ELSE s[j]]
RealInputs(n) == {WithImpulse(Extend(pat, n), pos) : pat \in AllPatterns, pos \in 0..n}
ComplexInputs(n) ==
    UNION {{[j \in 1..n |-> CNew(WithImpulse(Extend(pr, n), pos)[j], Extend(pi, n)[j])] :
               pr \in Patterns(p), pi \in Patterns(p), pos \in 0..n} :
           p \in 1..MaxPeriod}
Lift(s) == [j \in 1..Len(s) |-> CNew(s[j], 0)]
UnitImpulse(n, pos) == [j \in 1..n |-> IF j = pos THEN CNew(1, 0) ELSE CZero]
Coefficients == UNION {[1..m -> Samples] : m \in 0..MaxM}
FirLengths(m) == {b * BlockLen(m) + d : b \in 0..MaxBlocks, d \in 0..1}

\* a * x + b * y of two arrays of one length
LinComb(a, x, b, y) == [j \in 1..Len(x) |-> CAdd(CMul(a, x[j]), CMul(b, y[j]))]

\* ------------------------------------------------------------------- state
\* src: the array the caller passes (src2, ca, cb: the second array and the
\* scalars of a linear combination); coefficients: FIRFilter.coefficients;
\* cur: what the last call returned; writes: how often that call assigned each
\* index of the array it built; ops: the calls made so far; args: the scalar
\* arguments of the call and the build profile; calls: the frames of a
\* recursion that is followed call by call.
VARIABLES src, src2, ca, cb, coefficients, cur, writes, ops, args, calls

vars == <<src, src2, ca, cb, coefficients, cur, writes, ops, args, calls>>

NoArgs == <<>>
NoCalls == <<>>
Unused == /\ src2 = <<>>
          /\ ca = CZero
          /\ cb = CZero
          /\ coefficients = <<>>
          /\ args = NoArgs
          /\ calls = NoCalls
Idle == /\ cur = Ok(<<>>)
        /\ writes = <<>>
        /\ ops = <<>>
Inputs == <<src, src2, ca, cb, coefficients, args, calls>>

\* ----------------------------------------------------- complex transforms
InitFft ==
    /\ src \in UNION {ComplexInputs(n) : n \in 0..MaxLen}
    /\ Unused
    /\ Idle

CallFft ==
    /\ ops = <<>>
    /\ cur' = Fft(src)
    /\ ops' = <<"fft">>
    /\ UNCHANGED <<Inputs, writes>>

CallDft ==
    /\ ops = <<>>
    /\ cur' = Dft(src)
    /\ ops' = <<"dft">>
    /\ UNCHANGED <<Inputs, writes>>

NextFft == CallFft \/ CallDft
SpecFft == InitFft /\ [][NextFft]_vars

\* -------------------------------------------------------- real transforms
InitReal ==
    /\ src \in UNION {RealInputs(n) : n \in 0..MaxLen}
    /\ Unused
    /\ Idle

CallRfft ==
    /\ ops = <<>>
    /\ cur' = Rfft(src)
    /\ ops' = <<"rfft">>
    /\ UNCHANGED <<Inputs, writes>>

CallIrfft ==
    /\ ops = <<"rfft">>
    /\ cur.ok
    /\ cur' = Irfft(cur.v)
    /\ ops' = <<"rfft", "irfft">>
    /\ UNCHANGED <<Inputs, writes>>

NextReal == CallRfft \/ CallIrfft
SpecReal == InitReal /\ [][NextReal]_vars

\* ---------------------------------------------- fft of a linear combination
InitLin ==
    /\ \E n \in 1..MaxLen :
         /\ src \in {Lift(Extend(pat, n)) : pat \in AllPatterns}
         /\ src2 \in {UnitImpulse(n, pos) : pos \in 1..n}
    /\ ca \in {CNew(u, v) : u \in Samples, v \in Samples}
    /\ cb \in {CNew(u, 0) : u \in Samples}
    /\ coefficients = <<>>
    /\ args = NoArgs
    /\ calls = NoCalls
    /\ Idle

CallFftOfSum ==
    /\ ops = <<>>
    /\ cur' = Fft(LinComb(ca, src, cb, src2))
    /\ ops' = <<"fft_of_sum">>
    /\ UNCHANGED <<Inputs, writes>>

NextLin == CallFftOfSum
SpecLin == InitLin /\ [][NextLin]_vars

\* ------------------------------------------------------------- FIR filter
InitFir ==
    /\ coefficients \in Coefficients
    /\ src \in {Extend(pat, len) : pat \in AllPatterns, len \in FirLengths(Len(coefficients))}
    /\ src2 = <<>>
    /\ ca = CZero
    /\ cb = CZero
    /\ args = NoArgs
    /\ calls = NoCalls
    /\ Idle

CallProcess ==
    /\ ops = <<>>
    /\ cur' = Process(coefficients, src)
    /\ ops' = <<"process">>
    /\ UNCHANGED <<Inputs, writes>>

NextFir == CallProcess
SpecFir == InitFir /\ [][NextFir]_vars

\* ---------------------------------------------------- Stockwell transform
InitSt ==
    /\ src \in UNION {RealInputs(n) : n \in 0..MaxLen}
    /\ Unused
    /\ Idle

CallSt ==
    /\ ops = <<>>
    /\ LET r == St(src)
       IN  /\ cur' = [ok |-> r.ok, v |-> r.v]
           /\ writes' = r.w
    /\ ops' = <<"st">>
    /\ UNCHANGED Inputs

CallIst ==
    /\ ops = <<"st">>
    /\ cur.ok
    /\ cur' = Ist(cur.v)
    /\ writes' = <<>>
    /\ ops' = <<"st", "ist">>
    /\ UNCHANGED Inputs

NextSt == CallSt \/ CallIst
SpecSt == InitSt /\ [][NextSt]_vars

\* ======================================================= FIR filter claims
\* The full linear convolution of h with x, by its defining sum
RECURSIVE ConvSum(_, _, _, _)
ConvSum(h, x, k, j) ==
    IF j = 0 THEN 0
    ELSE LET t == k - (j - 1)
         IN  FAdd(ConvSum(h, x, k, j - 1),
                  IF t >= 0 /\ t < Len(x) THEN FMul(h[j], x[t + 1]) ELSE 0)
Convolve(h, x) == [k \in 1..(Len(x) + Len(h) - 1) |-> ConvSum(h, x, k - 1, Len(h))]

Processed == ops = <<"process">>
IsZeroArray(a) == \A j \in 1..Len(a) : a[j] = 0

\* C1: for m >= 1 coefficients and a signal of L >= 1 samples, process returns
\* L + m - 1 samples, sample k being the sum over j of h[j] * x[k - j], for a
\* signal of one block and for a signal of several blocks.
C1_ProcessIsConvolution ==
    (Processed /\ Len(coefficients) >= 1 /\ Len(src) >= 1)
        => /\ cur.ok
           /\ Len(cur.v) = Len(src) + Len(coefficients) - 1
           /\ cur.v = Convolve(coefficients, src)

\* C1 witness: a signal longer than one block, filtered by two coefficients,
\* whose sample at the block boundary is the sum of a term of each block.
C1_Witness ==
    LET l == BlockLen(2)
    IN  /\ Processed
        /\ cur.ok
        /\ Len(coefficients) = 2
        /\ Len(src) > l
        /\ coefficients[1] * src[l + 1] # 0
        /\ coefficients[2] * src[l] # 0
        /\ cur.v[l + 1] = coefficients[1] * src[l + 1] + coefficients[2] * src[l]

\* C2: filtering the unit impulse [1] with m >= 1 coefficients returns the
\* coefficients themselves.
C2_ImpulseResponse ==
    (Processed /\ src = <<1>> /\ Len(coefficients) >= 1) => cur = Ok(coefficients)

\* C2 witness: the impulse filtered by two non-zero coefficients.
C2_Witness ==
    /\ Processed
    /\ src = <<1>>
    /\ Len(coefficients) = 2
    /\ coefficients[1] # 0
    /\ coefficients[2] # 0
    /\ cur.ok
    /\ cur.v = coefficients

\* C3 as claimed: filtering an all-zero signal of any length with any
\* coefficient sequence, of any length m, completes with len + m - 1 zeros.
C3_ZeroSignalAnyCoefficients ==
    (Processed /\ IsZeroArray(src))
        => /\ cur.ok
           /\ Len(cur.v) = Len(src) + Len(coefficients) - 1
           /\ IsZeroArray(cur.v)

\* C3 amended: filtering an all-zero signal completes with len + m - 1 zeros
\* for every m >= 1 and every length, and for m = 0 when the signal has 1..8
\* samples; with no coefficients an empty signal or one of more than 8
\* samples makes process panic.
C3_ZeroSignal ==
    (Processed /\ IsZeroArray(src))
        => LET m == Len(coefficients)
               completes == m >= 1 \/ (Len(src) >= 1 /\ Len(src) <= TransformLen(0))
           IN  /\ cur.ok <=> completes
               /\ cur.ok => /\ Len(cur.v) = Len(src) + m - 1
                            /\ IsZeroArray(cur.v)

\* C3 witness: an all-zero signal of more than one block under two non-zero
\* coefficients.
C3_Witness ==
    /\ Processed
    /\ IsZeroArray(src)
    /\ Len(src) > BlockLen(2)
    /\ Len(coefficients) = 2
    /\ coefficients[1] # 0
    /\ coefficients[2] # 0
    /\ cur.ok
    /\ Len(cur.v) = Len(src) + 1

\* ===================================================== FFT family claims
\* C4: for a power-of-two length n and every complex input x of that length,
\* fft(x) equals dft(x) coefficient by coefficient.
C4_FftIsDft ==
    (ops = <<"fft">> /\ IsPow2(Len(src))) => (cur.ok /\ cur = Dft(src))

\* C4 witness: fft of 8 samples with a coefficient off the real axis.
C4_Witness ==
    /\ ops = <<"fft">>
    /\ Len(src) = 8
    /\ cur.ok
    /\ Im(cur.v[2]) # 0
    /\ Re(cur.v[2]) # 0

\* C5: for a power-of-two n and every real signal x of n samples,
\* irfft(rfft(x)) has n samples, each equal to the sample of x.
C5_RealRoundTrip ==
    (ops = <<"rfft", "irfft">> /\ IsPow2(Len(src)))
        => (cur.ok /\ Len(cur.v) = Len(src) /\ cur.v = src)

\* C5 witness: the round trip of 8 samples that are not a palindrome in time.
C5_Witness ==
    /\ ops = <<"rfft", "irfft">>
    /\ Len(src) = 8
    /\ src[2] # src[8]
    /\ cur.ok
    /\ cur.v = src

\* C6 as claimed: fft of an input whose length is not a power of two fails
\* and returns no array.
C6_FftFailsOffPowerOfTwo ==
    (ops = <<"fft">> /\ ~IsPow2(Len(src))) => ~cur.ok

\* C6 amended: of the lengths that are not a power of two, fft fails only on
\* the empty input; for every other such length n it returns an array of n
\* coefficients, the last of which is zero when n is odd.
C6_FftReturnsOffPowerOfTwo ==
    (ops = <<"fft">> /\ ~IsPow2(Len(src)))
        => /\ cur.ok <=> Len(src) # 0
           /\ cur.ok => /\ Len(cur.v) = Len(src)
                        /\ Len(src) % 2 = 1 => cur.v[Len(src)] = CZero

\* C6 witness: fft of 3 samples returns 3 coefficients that are not the DFT.
C6_Witness ==
    /\ ops = <<"fft">>
    /\ Len(src) = 3
    /\ cur.ok
    /\ Len(cur.v) = 3
    /\ cur # Dft(src)

\* C7: for a real signal of power-of-two length n, X = rfft(x) satisfies
\* X[n - k] = conj(X[k]) for 1 <= k < n.
C7_ConjugateSymmetry ==
    (ops = <<"rfft">> /\ IsPow2(Len(src)))
        => /\ cur.ok
           /\ \A k \in 1..(Len(src) - 1) : cur.v[Len(src) - k + 1] = CConj(cur.v[k + 1])

\* C7 witness: a spectrum of 8 bins with a bin off the real axis.
C7_Witness ==
    /\ ops = <<"rfft">>
    /\ Len(src) = 8
    /\ cur.ok
    /\ Im(cur.v[2]) # 0
    /\ cur.v[8] = CConj(cur.v[2])

\* C8: fft(a * x + b * y)[k] = a * fft(x)[k] + b * fft(y)[k] for scalars a, b
\* and inputs x, y of one power-of-two length.
C8_FftLinear ==
    (ops = <<"fft_of_sum">> /\ IsPow2(Len(src)))
        => /\ cur.ok
           /\ cur.v = LinComb(ca, Fft(src).v, cb, Fft(src2).v)

\* C8 witness: a combination of 4 samples with a non-real a, a non-zero b and
\* non-zero x.
C8_Witness ==
    /\ ops = <<"fft_of_sum">>
    /\ Len(src) = 4
    /\ Im(ca) # 0
    /\ Re(ca) # 0
    /\ cb # CZero
    /\ src[1] # src[2]
    /\ cur.ok

\* ================================================ Stockwell transform claims
RowSum(row) == SumComplex(row, Len(row))

\* C9: for a real signal x of power-of-two length n, row f of st(x) sums over
\* time to fft(x)[f] for f in 0..=n/2, and ist(st(x)) = x.
C9_StRoundTrip ==
    /\ (ops = <<"st">> /\ IsPow2(Len(src)))
         => /\ cur.ok
            /\ \A f \in 0..(Len(src) \div 2) : RowSum(cur.v[f + 1]) = Rfft(src).v[f + 1]
    /\ (ops = <<"st", "ist">> /\ IsPow2(Len(src)))
         => (cur.ok /\ cur.v = src)

\* C9 witness: the round trip of 8 samples that are not a palindrome in time.
C9_Witness ==
    /\ ops = <<"st", "ist">>
    /\ Len(src) = 8
    /\ src[2] # src[8]
    /\ cur.ok
    /\ cur.v = src

\* C10: for a real signal of n >= 1 samples, st returns n/2 + 1 rows of n
\* columns; row 0 is the sample mean with zero imaginary part in every column;
\* every row is written exactly once, row f in 1..=n/2 with the inverse FFT of
\* H[(i + f) mod n] * wgauss_f[i], where wgauss_f[n - i] = wgauss_f[i].
C10_StMatrix ==
    (ops = <<"st">> /\ Len(src) >= 1)
        => LET n == Len(src)
               H == Rfft(src).v
           IN  /\ cur.ok
               /\ Len(cur.v) = n \div 2 + 1
               /\ \A r \in 1..Len(cur.v) : Len(cur.v[r]) = n
               /\ \A j \in 1..n : /\ Im(cur.v[1][j]) = 0
                                  /\ FMul(Re(cur.v[1][j]), n) = SumReal(src, n)
               /\ writes = [r \in 1..(n \div 2 + 1) |-> 1]
               /\ \A f \in 1..(n \div 2) :
                    LET wgauss == Wgauss(f, n).v
                    IN  /\ \A i \in 1..(n - 1) : wgauss[n - i + 1] = wgauss[i + 1]
                        /\ cur.v[f + 1] =
                             Ifft([j \in 1..n |->
                                     CScale(H[((j - 1 + f) % n) + 1], wgauss[j])]).v

\* C10 witness: st of 6 samples, not all equal, with a voice that is not zero.
C10_Witness ==
    /\ ops = <<"st">>
    /\ Len(src) = 6
    /\ src[1] # src[2]
    /\ cur.ok
    /\ Len(cur.v) = 4
    /\ cur.v[4][1] # CZero

\* =================================================== short-time transform
\* usize subtraction a - b. The difference is kept as hi * 2^64 + lo: a build
\* with overflow checks panics when a < b, a build without them wraps, which
\* leaves hi = 1 and lo = a - b.
UsizeSub(a, b, checks) ==
    IF a >= b THEN [ok |-> TRUE, hi |-> 0, lo |-> a - b]
    ELSE IF checks THEN [ok |-> FALSE, hi |-> 0, lo |-> 0]
    ELSE [ok |-> TRUE, hi |-> 1, lo |-> a - b]

\* stft, line 134: num_frames = (self.len() - window_size) / hop_size + 1.
\* A zero hop_size panics in the division. A wrapped difference 2^64 + lo
\* divided by hop_size is 2^64 - 1 exactly when lo = -1 and hop_size = 1, and
\* then the + 1 wraps to 0; every other wrapped difference leaves at least one
\* frame, more than any signal holds (huge).
NumFrames(len, window_size, hop_size, checks) ==
    LET d == UsizeSub(len, window_size, checks)
    IN  IF ~d.ok \/ hop_size = 0 THEN [ok |-> FALSE, huge |-> FALSE, v |-> 0]
        ELSE IF d.hi = 0
             THEN [ok |-> TRUE, huge |-> FALSE, v |-> d.lo \div hop_size + 1]
        ELSE IF d.lo = -1 /\ hop_size = 1 THEN [ok |-> TRUE, huge |-> FALSE, v |-> 0]
        ELSE [ok |-> TRUE, huge |-> TRUE, v |-> 0]

\* stft, lines 131-133: window[n] = sin(pi * (n + 0.5) / window_size), which
\* is the sine of (2n + 1) / (4 * window_size) of a turn
SineWindow(window_size) ==
    [n \in 1..window_size |-> SinTurn(2 * (n - 1) + 1, 4 * window_size)]

\* A faulty variant of StftFrame that copies the samples after the window
\* into the padding.
StftFrameUnpadded(signal, window, start, window_size, next_pow_2) ==
    IF start + window_size > Len(signal) THEN Panic
    ELSE Ok([j \in 1..next_pow_2 |->
               IF j <= window_size THEN FMul(signal[start + j], window[j])
               ELSE IF start + j <= Len(signal) THEN signal[start + j]
               ELSE 0])

\* stft, lines 138-141: the zero frame of next_pow_2 samples whose first
\* window_size samples are signal[start..start + window_size] * window; the
\* slice panics when it ends after the signal.
StftFrame(signal, window, start, window_size, next_pow_2) ==
    IF start + window_size > Len(signal) THEN Panic
    ELSE Ok([j \in 1..next_pow_2 |->
               IF j <= window_size THEN FMul(signal[start + j], window[j]) ELSE 0])

\* stft, lines 136-145: the rows i..num_frames - 1 of the result
RECURSIVE StftRows(_, _, _, _, _, _)
StftRows(signal, window, window_size, hop_size, num_frames, i) ==
    IF i >= num_frames THEN Ok(<<>>)
    ELSE LET frame == StftFrame(signal, window, i * hop_size, window_size,
                                NextPowerOfTwo(window_size))
             spectrum == IF frame.ok THEN Rfft(frame.v) ELSE Panic
         IN  IF ~spectrum.ok THEN Panic
             ELSE LET rest == StftRows(signal, window, window_size, hop_size,
                                       num_frames, i + 1)
                  IN  IF rest.ok THEN Ok(<<spectrum.v>> \o rest.v) ELSE Panic

\* RealFourierTransform::stft. With a huge num_frames the result cannot be
\* allocated or, when it can, frame 0 reads window_size > len samples: the
\* call panics either way.
Stft(signal, window_size, hop_size, checks) ==
    LET num_frames == NumFrames(Len(signal), window_size, hop_size, checks)
    IN  IF ~num_frames.ok \/ num_frames.huge THEN Panic
        ELSE StftRows(signal, SineWindow(window_size), window_size, hop_size,
                      num_frames.v, 0)

\* The signals are the periodic patterns; every window up to MaxLen samples,
\* every hop up to MaxPeriod and both build profiles are tried.
InitStft ==
    /\ src \in {Extend(pat, n) : pat \in AllPatterns, n \in 0..MaxLen}
    /\ args \in [window_size : 0..MaxLen, hop_size : 0..MaxPeriod, checks : BOOLEAN]
    /\ src2 = <<>>
    /\ ca = CZero
    /\ cb = CZero
    /\ coefficients = <<>>
    /\ calls = NoCalls
    /\ Idle

CallStft ==
    /\ ops = <<>>
    /\ cur' = Stft(src, args.window_size, args.hop_size, args.checks)
    /\ ops' = <<"stft">>
    /\ UNCHANGED <<Inputs, writes>>

NextStft == CallStft
SpecStft == InitStft /\ [][NextStft]_vars

\* ------------------------------------------------------------ stft claims
StftDone == ops = <<"stft">>

\* The frame the claim describes: samples [start, start + w) under the sine
\* window, then zeros up to the padded width
ClaimedFrame(start, w, width) ==
    [j \in 1..width |-> IF j <= w THEN FMul(src[start + j], SineWindow(w)[j]) ELSE 0]

\* C11: with 1 <= window_size <= len and hop_size >= 1, stft returns
\* (len - window_size) / hop_size + 1 rows, each as wide as the least power of
\* two that is >= window_size; row i is the rfft of the frame that holds the
\* windowed samples [i * hop, i * hop + window_size), all inside the signal,
\* followed by zeros.
C11_StftFrames ==
    (StftDone /\ 1 <= args.window_size /\ args.window_size <= Len(src) /\ args.hop_size >= 1)
    => LET w == args.window_size
           h == args.hop_size
       IN  /\ cur.ok
           /\ Len(cur.v) = (Len(src) - w) \div h + 1
           /\ \A i \in 0..(Len(cur.v) - 1) :
                LET width == Len(cur.v[i + 1])
                IN  /\ IsPow2(width)
                    /\ w <= width
                    /\ width < 2 * w
                    /\ i * h + w <= Len(src)
                    /\ cur.v[i + 1] = Rfft(ClaimedFrame(i * h, w, width)).v

\* Three frames of a window of 3 samples padded to 4, the last frame ending
\* at the last sample of the signal, with a non-zero spectrum
C11_Witness ==
    /\ StftDone
    /\ args.window_size = 3
    /\ args.hop_size = 2
    /\ Len(src) = 7
    /\ cur.ok
    /\ Len(cur.v) = 3
    /\ Len(cur.v[3]) = 4
    /\ cur.v[3][2] # CZero

\* ===================================================== inverse transforms
\* A faulty variant of Idft that scales by 1/n twice.
IdftScaledTwice(x) ==
    LET n == Len(x)
        term(k, t) == CMul(CConj(Twiddle(k * t, n)), x[t + 1])
        Sum[k \in 0..(n - 1), t \in 0..n] ==
            IF t = 0 THEN CZero ELSE CAdd(Sum[k, t - 1], term(k, t - 1))
    IN  Ok([j \in 1..n |-> CDivLen(CDivLen(Sum[j - 1, n], n), n)])

\* InverseFourierTransform::idft: the twiddle of angle +2*pi*k*t/n is the
\* conjugate of the forward one; the sums are divided by n at the end
Idft(x) ==
    LET n == Len(x)
        term(k, t) == CMul(CConj(Twiddle(k * t, n)), x[t + 1])
        Sum[k \in 0..(n - 1), t \in 0..n] ==
            IF t = 0 THEN CZero ELSE CAdd(Sum[k, t - 1], term(k, t - 1))
    IN  Ok([j \in 1..n |-> CDivLen(Sum[j - 1, n], n)])

\* The inputs of a round trip: the periodic complex patterns and the unit
\* impulses
InverseInputs(n) ==
    UNION {{[j \in 1..n |-> CNew(Extend(pr, n)[j], Extend(pi, n)[j])] :
               pr \in Patterns(p), pi \in Patterns(p)} : p \in 1..MaxPeriod}
    \cup {UnitImpulse(n, pos) : pos \in 1..n}

InitInverse ==
    /\ src \in UNION {InverseInputs(n) : n \in 0..MaxLen}
    /\ Unused
    /\ Idle

CallIfft ==
    /\ ops = <<"fft">>
    /\ cur.ok
    /\ cur' = Ifft(cur.v)
    /\ ops' = <<"fft", "ifft">>
    /\ UNCHANGED <<Inputs, writes>>

CallIdft ==
    /\ ops = <<"dft">>
    /\ cur.ok
    /\ cur' = Idft(cur.v)
    /\ ops' = <<"dft", "idft">>
    /\ UNCHANGED <<Inputs, writes>>

NextInverse == CallFft \/ CallDft \/ CallIfft \/ CallIdft
SpecInverse == InitInverse /\ [][NextInverse]_vars

\* ------------------------------------------------------ round-trip claims
\* n times z, by repeated addition
RECURSIVE Times(_, _)
Times(n, z) == IF n = 0 THEN CZero ELSE CAdd(z, Times(n - 1, z))

IsUnitImpulseAtZero(x) ==
    /\ Len(x) >= 1
    /\ x = UnitImpulse(Len(x), 1)

\* C12: the forward transforms are unscaled (the unit impulse at index 0 is
\* transformed to all ones by fft and by dft), n times ifft(X) is
\* conj(fft(conj(X))), ifft(fft(x)) = x for every power-of-two length and
\* idft(dft(x)) = x for every length >= 1.
C12_ScaleOnlyInInverse ==
    /\ (ops \in {<<"fft">>, <<"dft">>} /\ IsUnitImpulseAtZero(src)
          /\ (ops = <<"fft">> => IsPow2(Len(src))))
       => /\ cur.ok
          /\ cur.v = [j \in 1..Len(src) |-> CNew(1, 0)]
    /\ (ops = <<"fft", "ifft">> /\ Len(src) >= 1)
       => /\ cur.ok
          /\ Len(cur.v) = Len(src)
          /\ LET X == Fft(src).v
                 g == Fft([j \in 1..Len(X) |-> CConj(X[j])]).v
             IN  \A j \in 1..Len(src) : Times(Len(src), cur.v[j]) = CConj(g[j])
    /\ (ops = <<"fft", "ifft">> /\ IsPow2(Len(src)))
       => cur = Ok(src)
    /\ (ops = <<"dft", "idft">> /\ Len(src) >= 1)
       => cur = Ok(src)

\* idft(dft(x)) has returned a 6-sample input with both non-zero real and
\* imaginary parts
C12_Witness ==
    /\ ops = <<"dft", "idft">>
    /\ Len(src) = 6
    /\ src[1] = CNew(1, 1)
    /\ src[2] = CNew(0, 1)
    /\ cur = Ok(src)

\* ifft(fft(x)) has returned an 8-sample input that is not constant
C12_WitnessIfft ==
    /\ ops = <<"fft", "ifft">>
    /\ Len(src) = 8
    /\ src[1] # src[2]
    /\ cur = Ok(src)

\* ========================================================= frequency axis
\* `as f32` of a usize kept as hi * 2^64 + lo (the rounding of the cast is
\* outside the model)
TwoPow64 == FPow(2, 64)
UsizeAsF32(d) == FAdd(FMul(d.hi, TwoPow64), FromInt(d.lo))

\* freqs, line 216: i - if i < n / 2 { 0 } else { n }, on usize
FreqsIndex(i, n, checks) == UsizeSub(i, IF i < n \div 2 THEN 0 ELSE n, checks)

\* freqs: df = sampling_freq / n, entry i = (shifted index as f32) * df; a
\* panic of one entry's subtraction is the panic of the call
Freqs(n, sampling_freq, checks) ==
    IF \E i \in 0..(n - 1) : ~FreqsIndex(i, n, checks).ok THEN Panic
    ELSE Ok([j \in 1..n |->
               FMul(UsizeAsF32(FreqsIndex(j - 1, n, checks)), FDivLen(sampling_freq, n))])

InitFreqs ==
    /\ args \in [n : 0..MaxLen, sampling_freq : 0..MaxLen, checks : BOOLEAN]
    /\ src = <<>>
    /\ src2 = <<>>
    /\ ca = CZero
    /\ cb = CZero
    /\ coefficients = <<>>
    /\ calls = NoCalls
    /\ Idle

CallFreqs ==
    /\ ops = <<>>
    /\ cur' = Freqs(args.n, args.sampling_freq, args.checks)
    /\ ops' = <<"freqs">>
    /\ UNCHANGED <<Inputs, writes>>

NextFreqs == CallFreqs
SpecFreqs == InitFreqs /\ [][NextFreqs]_vars

\* ----------------------------------------------------------- freqs claims
FreqsDone == ops = <<"freqs">>

\* The centered bin axis: i * fs/n below n/2, (i - n) * fs/n from n/2 on
CenteredBin(i, n, fs) ==
    FMul(FromInt(IF i < n \div 2 THEN i ELSE i - n), FDiv(fs, n))

\* C13: for every n >= 1, freqs(n, fs) returns the n values of the centered
\* bin axis: i * fs/n for i < n/2 and the negative frequency (i - n) * fs/n
\* for n/2 <= i < n.
C13_CenteredBins ==
    (FreqsDone /\ args.n >= 1)
    => /\ cur.ok
       /\ Len(cur.v) = args.n
       /\ \A i \in 0..(args.n - 1) :
            cur.v[i + 1] = CenteredBin(i, args.n, args.sampling_freq)

\* What freqs does for n >= 1: with overflow checks it panics at index n/2;
\* without them every entry from n/2 on is 2^64 * fs/n above the claimed one.
C13_FreqsUnderflow ==
    (FreqsDone /\ args.n >= 1)
    => IF args.checks THEN ~cur.ok
       ELSE /\ cur.ok
            /\ Len(cur.v) = args.n
            /\ \A i \in 0..(args.n - 1) :
                 cur.v[i + 1] =
                     FAdd(CenteredBin(i, args.n, args.sampling_freq),
                          IF i < args.n \div 2 THEN 0
                          ELSE FMul(TwoPow64, FDiv(args.sampling_freq, args.n)))

\* freqs(4, 4) without overflow checks: entry 1 is 1 and entry 2 is not -2
C13_Witness ==
    /\ FreqsDone
    /\ args.n = 4
    /\ args.sampling_freq = 4
    /\ ~args.checks
    /\ cur.ok
    /\ cur.v[2] = 1
    /\ cur.v[3] # FromInt(-2)

\* ============================================= continuous wavelet transform
\* cwt, lines 103-111, for one scale a and one shift b.  The wavelet T is a
\* type parameter of cwt, so the coefficient is kept as its terms: for every
\* sample t the pair of x[t] and the time (t - b) as f32 / a that is handed to
\* T::generate, the time as the usize difference hi * 2^64 + lo over a.
CwtTerms(signal, a, b, checks) ==
    [t \in 1..Len(signal) |->
        LET d == UsizeSub(t - 1, b, checks)
        IN  [ok |-> d.ok, x |-> signal[t], hi |-> d.hi, lo |-> d.lo, a |-> a]]

\* WaveletTransform::cwt: one row per scale, one coefficient per shift b in
\* 0..n; a panic of one subtraction t - b is the panic of the call
Cwt(signal, scales, checks) ==
    LET n == Len(signal)
        coeff(i, b) == CwtTerms(signal, scales[i], b, checks)
    IN  IF \E i \in 1..Len(scales), b \in 0..(n - 1), t \in 1..n : ~coeff(i, b)[t].ok
        THEN Panic
        ELSE Ok([i \in 1..Len(scales) |-> [b \in 1..n |-> coeff(i, b - 1)]])

\* The signals are the periodic patterns; the lists of up to MaxPeriod scales
\* drawn from 1..MaxPeriod and both build profiles are tried.
InitCwt ==
    /\ src \in {Extend(pat, n) : pat \in AllPatterns, n \in 0..MaxLen}
    /\ args \in [scales : UNION {[1..k -> 1..MaxPeriod] : k \in 0..MaxPeriod},
                 checks : BOOLEAN]
    /\ src2 = <<>>
    /\ ca = CZero
    /\ cb = CZero
    /\ coefficients = <<>>
    /\ calls = NoCalls
    /\ Idle

CallCwt ==
    /\ ops = <<>>
    /\ cur' = Cwt(src, args.scales, args.checks)
    /\ ops' = <<"cwt">>
    /\ UNCHANGED <<Inputs, writes>>

NextCwt == CallCwt
SpecCwt == InitCwt /\ [][NextCwt]_vars

\* ------------------------------------------------------------- cwt claims
CwtDone == ops = <<"cwt">>

\* C14: for every signal of n >= 1 samples and every list of scales, cwt
\* completes with scales.len() rows of n columns, and for scale a, shift b and
\* sample t the kernel is evaluated at the signed time (t - b) / a, negative
\* whenever t < b.
C14_SignedTimes ==
    (CwtDone /\ Len(src) >= 1)
    => /\ cur.ok
       /\ Len(cur.v) = Len(args.scales)
       /\ \A i \in 1..Len(cur.v) :
            /\ Len(cur.v[i]) = Len(src)
            /\ \A b \in 0..(Len(src) - 1), t \in 0..(Len(src) - 1) :
                 LET term == cur.v[i][b + 1][t + 1]
                 IN  /\ term.hi = 0
                     /\ term.lo = t - b
                     /\ term.a = args.scales[i]
                     /\ term.x = src[t + 1]

\* What cwt does: with two or more samples and at least one scale it panics
\* under overflow checks, and without them every time with t < b is the
\* positive (2^64 + t - b) / a; otherwise the result is as claimed.
C14_CwtUnderflow ==
    CwtDone
    => IF Len(src) >= 2 /\ Len(args.scales) >= 1 /\ args.checks THEN ~cur.ok
       ELSE /\ cur.ok
            /\ Len(cur.v) = Len(args.scales)
            /\ \A i \in 1..Len(cur.v) :
                 /\ Len(cur.v[i]) = Len(src)
                 /\ \A b \in 0..(Len(src) - 1), t \in 0..(Len(src) - 1) :
                      LET term == cur.v[i][b + 1][t + 1]
                      IN  /\ term.hi = (IF t < b THEN 1 ELSE 0)
                          /\ term.lo = t - b
                          /\ term.a = args.scales[i]
                          /\ term.x = src[t + 1]

\* Three samples and the scales 1, 2 without overflow checks: the time of
\* sample 0 at shift 2 has wrapped
C14_Witness ==
    /\ CwtDone
    /\ Len(src) = 3
    /\ args.scales = <<1, 2>>
    /\ ~args.checks
    /\ cur.ok
    /\ cur.v[2][3][1].hi = 1
    /\ cur.v[2][3][1].lo = -2

\* ================================== assignments of the FFT-family routines
\* A faulty variant of CombineLoop that assigns only result[k].
RECURSIVE CombineLoopLowerHalf(_, _, _, _, _)
CombineLoopLowerHalf(result, fft_even, fft_odd, n, k) ==
    IF ~result.ok \/ k >= n \div 2 THEN result
    ELSE IF k >= Len(fft_even) \/ k >= Len(fft_odd) THEN Failed
    ELSE LET t == CMul(Twiddle(k, n), fft_odd[k + 1])
         IN  CombineLoopLowerHalf(Store(result, k, CAdd(fft_even[k + 1], t)),
                                  fft_even, fft_odd, n, k + 1)

\* fft, lines 85-93, assignment by assignment: iteration k stores result[k]
\* and result[k + n/2]
RECURSIVE CombineLoop(_, _, _, _, _)
CombineLoop(result, fft_even, fft_odd, n, k) ==
    IF ~result.ok \/ k >= n \div 2 THEN result
    ELSE IF k >= Len(fft_even) \/ k >= Len(fft_odd) THEN Failed
    ELSE LET t == CMul(Twiddle(k, n), fft_odd[k + 1])
         IN  CombineLoop(Store(Store(result, k, CAdd(fft_even[k + 1], t)),
                               k + n \div 2, CSub(fft_even[k + 1], t)),
                         fft_even, fft_odd, n, k + 1)

\* fft with the assignments of its own result: Array1::from_elem sets the one
\* element of the base case, the loop sets the others
FftCounted(x) ==
    LET n == Len(x)
    IN  IF n = 1 THEN [ok |-> TRUE, v |-> <<x[1]>>, w |-> <<1>>]
        ELSE IF n = 0 THEN Failed
        ELSE LET fft_even == Fft(EvenSlice(x))
                 fft_odd == Fft(OddSlice(x))
             IN  IF ~fft_even.ok \/ ~fft_odd.ok THEN Failed
                 ELSE CombineLoop(Fresh(n, CZero), fft_even.v, fft_odd.v, n, 0)

\* for k in 0..n { result[k] = sum; } of dft, idft and irdft
RECURSIVE StoreAll(_, _, _)
StoreAll(result, sums, k) ==
    IF ~result.ok \/ k >= Len(sums) THEN result
    ELSE StoreAll(Store(result, k, sums[k + 1]), sums, k + 1)

\* A routine's result with the assignments w of the array it is made from: an
\* element-wise map or division assigns no element its argument lacks.
Counted(r, w) == IF ~r.ok THEN Failed ELSE [ok |-> TRUE, v |-> r.v, w |-> w]

DftCounted(x) == StoreAll(Fresh(Len(x), CZero), Dft(x).v, 0)

IdftCounted(x) == Counted(Idft(x), StoreAll(Fresh(Len(x), CZero), Idft(x).v, 0).w)

IfftCounted(x) == Counted(Ifft(x), FftCounted([j \in 1..Len(x) |-> CConj(x[j])]).w)

RfftCounted(s) == Counted(Rfft(s), FftCounted([j \in 1..Len(s) |-> CNew(s[j], 0)]).w)

IrfftCounted(x) == Counted(Irfft(x), IfftCounted(x).w)

\* RealInverseFourierTransform::irdft: the real parts of the idft terms,
\* summed and divided by n
Irdft(x) ==
    LET n == Len(x)
        term(k, t) == Re(CMul(CConj(Twiddle(k * t, n)), x[t + 1]))
        Sum[k \in 0..(n - 1), t \in 0..n] ==
            IF t = 0 THEN 0 ELSE FAdd(Sum[k, t - 1], term(k, t - 1))
    IN  Ok([j \in 1..n |-> FDivLen(Sum[j - 1, n], n)])

IrdftCounted(x) == Counted(Irdft(x), StoreAll(Fresh(Len(x), 0), Irdft(x).v, 0).w)

\* The routine named r applied to x, with the assignments of its result
FamilyCounted(r, x) ==
    CASE r = "fft" -> FftCounted(x)
      [] r = "dft" -> DftCounted(x)
      [] r = "ifft" -> IfftCounted(x)
      [] r = "idft" -> IdftCounted(x)
      [] r = "rfft" -> RfftCounted(x)
      [] r = "irfft" -> IrfftCounted(x)
      [] r = "irdft" -> IrdftCounted(x)

ComplexRoutines == {"fft", "dft", "ifft", "idft", "irfft", "irdft"}

\* rfft is called on the real periodic patterns, the other routines on the
\* complex inputs of the round trips.
InitFamily ==
    /\ \/ /\ args = [routine |-> "rfft"]
          /\ src \in {Extend(pat, n) : pat \in AllPatterns, n \in 0..MaxLen}
       \/ /\ args \in [routine : ComplexRoutines]
          /\ src \in UNION {InverseInputs(n) : n \in 0..MaxLen}
    /\ src2 = <<>>
    /\ ca = CZero
    /\ cb = CZero
    /\ coefficients = <<>>
    /\ calls = NoCalls
    /\ Idle

CallCounted ==
    /\ ops = <<>>
    /\ \E r \in {FamilyCounted(args.routine, src)} :
         /\ cur' = [ok |-> r.ok, v |-> r.v]
         /\ writes' = r.w
    /\ ops' = <<args.routine>>
    /\ UNCHANGED Inputs

NextFamily == CallCounted
SpecFamily == InitFamily /\ [][NextFamily]_vars

\* ------------------------------------------------------ assignment claims
FamilyDone == Len(ops) = 1 /\ ops[1] = args.routine

\* The routines that run the radix-2 recursion
Radix2Routines == {"fft", "ifft", "rfft", "irfft"}

\* The result of the routine by its transform alone
FamilyResult ==
    CASE args.routine = "fft" -> Fft(src)
      [] args.routine = "dft" -> Dft(src)
      [] args.routine = "ifft" -> Ifft(src)
      [] args.routine = "idft" -> Idft(src)
      [] args.routine = "rfft" -> Rfft(src)
      [] args.routine = "irfft" -> Irfft(src)
      [] args.routine = "irdft" -> Irdft(src)

ZeroOf(r) == IF r \in {"irfft", "irdft"} THEN 0 ELSE CZero

\* C15: for every input of n >= 1 elements, each of fft, dft, ifft, idft,
\* rfft, irfft and irdft returns n elements and has assigned every one of the
\* n output indices.
C15_EveryIndexAssigned ==
    (FamilyDone /\ Len(src) >= 1)
    => /\ cur.ok
       /\ Len(cur.v) = Len(src)
       /\ Len(writes) = Len(src)
       /\ \A j \in 1..Len(src) : writes[j] >= 1

\* C15 as the routines behave: each returns n elements for n >= 1; dft, idft
\* and irdft assign every index once for every n; fft, ifft, rfft and irfft
\* assign every index once when n is 1 or even, and for an odd n >= 3 they
\* assign the indices 0..n-2 once and leave index n-1 at zero, unassigned.
C15_AssignedUnlessOddRadix2 ==
    (FamilyDone /\ Len(src) >= 1)
    => LET n == Len(src)
           skipped == args.routine \in Radix2Routines /\ n >= 3 /\ n % 2 = 1
       IN  /\ cur.ok
           /\ cur = FamilyResult
           /\ Len(cur.v) = n
           /\ Len(writes) = n
           /\ \A j \in 1..n :
                IF skipped /\ j = n
                THEN writes[j] = 0 /\ cur.v[j] = ZeroOf(args.routine)
                ELSE writes[j] = 1

\* fft has returned 8 elements, each assigned once, the last one non-zero
C15_Witness ==
    /\ ops = <<"fft">>
    /\ args.routine = "fft"
    /\ Len(src) = 8
    /\ cur.ok
    /\ writes = [j \in 1..8 |-> 1]
    /\ cur.v[8] # CZero

\* fft has returned 5 elements with the last one unassigned
C15_WitnessOdd ==
    /\ ops = <<"fft">>
    /\ Len(src) = 5
    /\ src[5] = CNew(1, 1)
    /\ cur.ok
    /\ writes[5] = 0
    /\ writes[4] = 1

\* ============================================= overlap-add, block by block
\* FIRFilter::process, lines 32-51, as ProcessChunks but keeping for every
\* iteration its chunk, its block y and the range start..end it is added to
RECURSIVE ProcessBlocks(_, _, _, _, _, _, _)
ProcessBlocks(signal, H, n, l, i, output, blocks) ==
    IF ~output.ok \/ i * l >= Len(signal)
    THEN [ok |-> output.ok, v |-> output.v, blocks |-> blocks]
    ELSE LET last == IF (i + 1) * l < Len(signal) THEN (i + 1) * l ELSE Len(signal)
             chunk == SubSeq(signal, i * l + 1, last)
             y == FilterChunk(chunk, H, n)
             start == i * l
             end == IF start + n < Len(output.v) THEN start + n ELSE Len(output.v)
         IN  IF ~y.ok THEN [ok |-> FALSE, v |-> <<>>, blocks |-> blocks]
             ELSE ProcessBlocks(signal, H, n, l, i + 1, AddBlock(output.v, y.v, start, n),
                                Append(blocks, [chunk |-> chunk, y |-> y.v,
                                                start |-> start, end |-> end]))

\* FIRFilter::process with the blocks of its loop
ProcessTraced(coefs, signal) ==
    LET m == Len(coefs)
        n == TransformLen(m)
        l == BlockLen(m)
        padded_coef == [j \in 1..n |-> IF j <= m THEN coefs[j] ELSE 0]
        H == Rfft(padded_coef)
        size == OutputLen(Len(signal), m)
    IN  IF ~H.ok \/ size < 0 THEN [ok |-> FALSE, v |-> <<>>, blocks |-> <<>>]
        ELSE ProcessBlocks(signal, H.v, n, l, 0, Ok([j \in 1..size |-> 0]), <<>>)

InitBlocks ==
    /\ coefficients \in Coefficients
    /\ src \in {Extend(pat, len) : pat \in AllPatterns, len \in FirLengths(Len(coefficients))}
    /\ src2 = <<>>
    /\ ca = CZero
    /\ cb = CZero
    /\ args = NoArgs
    /\ calls = NoCalls
    /\ Idle

CallProcessTraced ==
    /\ ops = <<>>
    /\ \E r \in {ProcessTraced(coefficients, src)} :
         /\ cur' = [ok |-> r.ok, v |-> r.v]
         /\ calls' = r.blocks
    /\ ops' = <<"process">>
    /\ UNCHANGED <<src, src2, ca, cb, coefficients, args, writes>>

NextBlocks == CallProcessTraced
SpecBlocks == InitBlocks /\ [][NextBlocks]_vars

\* ----------------------------------------------------- overlap-add claims
\* The sum over the blocks 1..i of their sample for output index k, a block
\* covering the n indices from its start on
RECURSIVE Contributions(_, _)
Contributions(k, i) ==
    IF i = 0 THEN 0
    ELSE LET b == calls[i]
             own == IF b.start <= k /\ k < b.start + Len(b.y)
                    THEN b.y[k - b.start + 1] ELSE 0
         IN  FAdd(Contributions(k, i - 1), own)

\* C16: for a signal longer than one block, block i is added into the output
\* from offset i * l on, and every output sample is the sum of the samples of
\* all blocks that cover it; where two consecutive blocks overlap the output
\* holds the sum of both, not the later block's sample alone.
C16_OverlapAdd ==
    (Processed /\ Len(coefficients) >= 1 /\ Len(src) > BlockLen(Len(coefficients)))
    => LET m == Len(coefficients)
           l == TransformLen(m) - m + 1
       IN  /\ cur.ok
           /\ Len(calls) >= 2
           /\ \A i \in 1..Len(calls) : calls[i].start = (i - 1) * l
           /\ \A k \in 0..(Len(cur.v) - 1) : cur.v[k + 1] = Contributions(k, Len(calls))
           /\ \A i \in 1..(Len(calls) - 1) :
                \A k \in (i * l)..(i * l + m - 2) :
                    k < Len(cur.v)
                    => cur.v[k + 1] = FAdd(calls[i].y[k - (i - 1) * l + 1],
                                           calls[i + 1].y[k - i * l + 1])

\* Two coefficients and a signal of more than one block: the sample at the
\* block boundary is the sum of two non-zero samples, one of each block
C16_Witness ==
    /\ Processed
    /\ cur.ok
    /\ Len(coefficients) = 2
    /\ Len(calls) >= 2
    /\ calls[1].y[BlockLen(2) + 1] # 0
    /\ calls[2].y[1] # 0
    /\ cur.v[BlockLen(2) + 1] = FAdd(calls[1].y[BlockLen(2) + 1], calls[2].y[1])
    /\ cur.v[BlockLen(2) + 1] # calls[2].y[1]

\* C17: for m >= 1, l = n - m + 1 with n = 8 * next_power_of_two(m); every
\* chunk has at most l samples, so that chunk.len() + m - 1 <= n and the block
\* is the chunk's linear convolution with the coefficients followed by zeros;
\* the write range [i*l, min(i*l + n, len + m - 1)) is non-empty, lies inside
\* the output and contains the support [i*l, i*l + chunk.len() + m - 1).
C17_BlockFitsTransform ==
    (Processed /\ Len(coefficients) >= 1)
    => LET m == Len(coefficients)
           n == 8 * NextPowerOfTwo(m)
           l == n - m + 1
       IN  /\ cur.ok
           /\ Len(cur.v) = Len(src) + m - 1
           /\ Len(calls) = (Len(src) + l - 1) \div l
           /\ \A i \in 0..(Len(calls) - 1) :
                LET b == calls[i + 1]
                    support == Len(b.chunk) + m - 1
                IN  /\ Len(b.chunk) >= 1
                    /\ Len(b.chunk) <= l
                    /\ b.chunk = SubSeq(src, i * l + 1, i * l + Len(b.chunk))
                    /\ support <= n
                    /\ Len(b.y) = n
                    /\ b.start = i * l
                    /\ b.end = (IF i * l + n < Len(src) + m - 1 THEN i * l + n
                                ELSE Len(src) + m - 1)
                    /\ b.start < b.end
                    /\ b.end <= Len(cur.v)
                    /\ b.start + support <= b.end
                    /\ SubSeq(b.y, 1, support) = Convolve(coefficients, b.chunk)
                    /\ SubSeq(b.y, support + 1, n) = [j \in 1..(n - support) |-> 0]

\* Two coefficients and a signal of one block and one sample: the last block
\* is cut at the output end, and the last output sample is non-zero
C17_Witness ==
    /\ Processed
    /\ cur.ok
    /\ Len(coefficients) = 2
    /\ Len(src) = BlockLen(2) + 1
    /\ Len(calls) = 2
    /\ calls[2].end < calls[2].start + TransformLen(2)
    /\ cur.v[Len(cur.v)] # 0

\* --------------------------------------------------- stft on short signals
\* C18: stft fails whenever the signal is shorter than the window; it never
\* returns a spectrogram, empty or partially filled, in that case.
C18_StftFailsShortSignal ==
    (StftDone /\ Len(src) < args.window_size) => ~cur.ok

\* What stft does on a signal shorter than the window: it panics, except in a
\* build without overflow checks when the signal is one sample short and
\* hop_size is 1, where num_frames wraps to 0 and stft returns a spectrogram
\* of no rows.
C18_StftShortSignal ==
    (StftDone /\ Len(src) < args.window_size)
    => IF ~args.checks /\ args.window_size - Len(src) = 1 /\ args.hop_size = 1
       THEN cur = Ok(<<>>)
       ELSE ~cur.ok

\* Two samples, a window of three and a hop of one without overflow checks:
\* stft has returned a spectrogram of no rows
C18_Witness ==
    /\ StftDone
    /\ Len(src) = 2
    /\ args.window_size = 3
    /\ args.hop_size = 1
    /\ ~args.checks
    /\ cur.ok
    /\ Len(cur.v) = 0

\* ================================================ the fft recursion by calls
\* One call of fft is a frame: idx, the indices of the original array its
\* self holds; depth, the number of calls above it; parent and side, the
\* length of the caller's self and the slice of it this call was given.
\* calls.stack holds the calls not yet started, the next one first;
\* calls.leaves the calls that returned from the base case.
Frame(idx, depth, parent, side) ==
    [idx |-> idx, depth |-> depth, parent |-> parent, side |-> side]

InitRecursion ==
    /\ src \in {Lift(Extend(pat, n)) : pat \in AllPatterns, n \in 0..MaxLen}
    /\ src2 = <<>>
    /\ ca = CZero
    /\ cb = CZero
    /\ coefficients = <<>>
    /\ args = NoArgs
    /\ calls = [status |-> "idle", stack |-> <<>>, leaves |-> <<>>]
    /\ Idle

\* the caller's x.fft()
FftEnter ==
    /\ calls.status = "idle"
    /\ calls' = [status |-> "running",
                 stack |-> <<Frame([j \in 1..Len(src) |-> j - 1], 0, Len(src), "self")>>,
                 leaves |-> <<>>]
    /\ ops' = <<"fft">>
    /\ UNCHANGED <<src, src2, ca, cb, coefficients, args, cur, writes>>

\* fft, lines 73-75: a call on one element returns it
FftBaseCase ==
    /\ calls.status = "running"
    /\ calls.stack # <<>>
    /\ Len(Head(calls.stack).idx) = 1
    /\ calls' = [calls EXCEPT !.stack = Tail(@),
                              !.leaves = Append(@, [index |-> Head(calls.stack).idx[1],
                                                    depth |-> Head(calls.stack).depth])]
    /\ UNCHANGED <<src, src2, ca, cb, coefficients, args, cur, writes, ops>>

\* fft, lines 78-83: a call on two or more elements slices them and calls fft
\* on the even slice, then on the odd slice
FftSplit ==
    /\ calls.status = "running"
    /\ calls.stack # <<>>
    /\ Len(Head(calls.stack).idx) >= 2
    /\ LET f == Head(calls.stack)
           n == Len(f.idx)
       IN  calls' = [calls EXCEPT !.stack =
                        <<Frame(EvenSlice(f.idx), f.depth + 1, n, "even"),
                          Frame(OddSlice(f.idx), f.depth + 1, n, "odd")>> \o Tail(@)]
    /\ UNCHANGED <<src, src2, ca, cb, coefficients, args, cur, writes, ops>>

\* fft, line 79: on an empty array s![1..; 2] begins past the end of the axis
\* and the slice panics
FftEmptyPanics ==
    /\ calls.status = "running"
    /\ calls.stack # <<>>
    /\ Len(Head(calls.stack).idx) = 0
    /\ calls' = [calls EXCEPT !.status = "panicked", !.stack = <<>>]
    /\ cur' = Panic
    /\ UNCHANGED <<src, src2, ca, cb, coefficients, args, writes, ops>>

\* every call has returned: the caller holds the transform
FftReturn ==
    /\ calls.status = "running"
    /\ calls.stack = <<>>
    /\ calls' = [calls EXCEPT !.status = "returned"]
    /\ cur' = Fft(src)
    /\ UNCHANGED <<src, src2, ca, cb, coefficients, args, writes, ops>>

NextRecursion == FftEnter \/ FftBaseCase \/ FftSplit \/ FftEmptyPanics \/ FftReturn
\* A call that can take its next step takes it.
SpecRecursion == InitRecursion /\ [][NextRecursion]_vars /\ WF_vars(NextRecursion)

\* ------------------------------------------------------- recursion claims
\* How many of the calls not yet started and of the base cases reached hold
\* the original index j
Holders(j) ==
    Cardinality({i \in 1..Len(calls.stack) :
                    \E p \in 1..Len(calls.stack[i].idx) : calls.stack[i].idx[p] = j})
    + Cardinality({i \in 1..Len(calls.leaves) : calls.leaves[i].index = j})

\* The even slice has ceil(n/2) and the odd slice floor(n/2) of the caller's
\* n elements; the slices of all pending calls and the base cases reached are
\* disjoint and cover 0..n; for n = 2^d every base case is d calls deep; an
\* empty input reaches no base case and does not return.
RecursionStructure ==
    /\ \A i \in 1..Len(calls.stack) :
         LET f == calls.stack[i]
         IN  /\ f.side = "even" => Len(f.idx) = (f.parent + 1) \div 2
             /\ f.side = "odd" => Len(f.idx) = f.parent \div 2
             /\ Len(src) >= 1 => Len(f.idx) >= 1
    /\ calls.status \in {"running", "returned"}
         => \A j \in 0..(Len(src) - 1) : Holders(j) = 1
    /\ IsPow2(Len(src))
         => \A i \in 1..Len(calls.leaves) : 2^(calls.leaves[i].depth) = Len(src)
    /\ Len(src) = 0 => (calls.leaves = <<>> /\ calls.status # "returned")

\* The call has ended: with a base case for each of the n >= 1 elements and
\* the transform returned, or for the empty input with a panic
RecursionEnded ==
    IF Len(src) >= 1
    THEN /\ calls.status = "returned"
         /\ Len(calls.leaves) = Len(src)
         /\ cur.ok
    ELSE /\ calls.status = "panicked"
         /\ calls.leaves = <<>>

\* C19: the fft recursion reaches the n = 1 base case on every branch, and so
\* terminates, exactly when the input has n >= 1 elements: the even and odd
\* sub-slices have ceil(n/2) and floor(n/2) elements, are disjoint and cover
\* 0..n, and for n = 2^d the depth is exactly d; an empty input reaches no
\* base case.
C19_RecursionReachesBaseCases == []RecursionStructure /\ <>RecursionEnded

\* fft of 8 elements has returned after 8 base cases, each 3 calls deep
C19_Witness ==
    /\ calls.status = "returned"
    /\ Len(src) = 8
    /\ Len(calls.leaves) = 8
    /\ \A i \in 1..8 : calls.leaves[i].depth = 3
    /\ cur.ok

\* ===================================== inverse Stockwell transform, directly
\* A matrix of ntimes columns and ntimes / 2 + 1 rows: row f is x scaled by
\* f + 1, so that the rows have different sums
ScaledRows(x) ==
    [r \in 1..(Len(x) \div 2 + 1) |-> [j \in 1..Len(x) |-> CScale(x[j], r)]]

InitIst ==
    /\ src \in {ScaledRows(x) : x \in UNION {InverseInputs(n) : n \in 1..MaxLen}}
    /\ Unused
    /\ Idle

CallIstOn ==
    /\ ops = <<>>
    /\ cur' = Ist(src)
    /\ writes' = IstSpectrum(src).w
    /\ ops' = <<"ist">>
    /\ UNCHANGED Inputs

NextIst == CallIstOn
SpecIst == InitIst /\ [][NextIst]_vars

\* ------------------------------------------------------------- ist claims
\* The spectrum the claim describes: the row sums up to ntimes / 2, then the
\* conjugates of the row sums at the mirrored indices
ClaimedSpectrum(S) ==
    LET ntimes == Len(S[1])
    IN  [j \in 1..ntimes |->
           IF j - 1 <= ntimes \div 2 THEN RowSum(S[j])
           ELSE CConj(RowSum(S[ntimes - (j - 1) + 1]))]

\* C20: for a matrix of ntimes columns, ntimes a power of two, and
\* ntimes / 2 + 1 rows, ist assigns each of the ntimes spectrum coefficients
\* exactly once: index f <= ntimes / 2 the sum of row f, index i > ntimes / 2
\* the conjugate of the coefficient at ntimes - i, which lies in
\* 1..ntimes / 2 and is still the row sum; the result has ntimes samples.
C20_IstAssignsOnce ==
    (ops = <<"ist">> /\ IsPow2(Len(src[1])) /\ Len(src) = Len(src[1]) \div 2 + 1)
    => LET ntimes == Len(src[1])
           spectrum == IstSpectrum(src)
       IN  /\ spectrum.ok
           /\ Len(writes) = ntimes
           /\ \A j \in 1..ntimes : writes[j] = 1
           /\ spectrum.v = ClaimedSpectrum(src)
           /\ \A i \in (ntimes \div 2 + 1)..(ntimes - 1) :
                /\ 1 <= ntimes - i
                /\ ntimes - i <= ntimes \div 2
                /\ spectrum.v[i + 1] = CConj(RowSum(src[ntimes - i + 1]))
           /\ cur.ok
           /\ Len(cur.v) = ntimes
           /\ cur = Irfft(ClaimedSpectrum(src))

\* A matrix of 8 columns and 5 rows: index 7 holds the conjugate of the sum
\* of row 1, which is not real
C20_Witness ==
    /\ ops = <<"ist">>
    /\ Len(src) = 5
    /\ Len(src[1]) = 8
    /\ writes = [j \in 1..8 |-> 1]
    /\ Im(RowSum(src[2])) # 0
    /\ IstSpectrum(src).v[8] = CConj(RowSum(src[2]))
    /\ cur.ok

\* ============================================ repeated calls on one filter
\* A faulty variant of ProcessCall that keeps padded_coef as the filter's
\* coefficients.
ProcessCallKeepsPadded(coefs, signal) ==
    [coefficients |-> [j \in 1..TransformLen(Len(coefs)) |->
                          IF j <= Len(coefs) THEN coefs[j] ELSE 0],
     signal |-> signal,
     out |-> Process(coefs, signal)]

\* One call of FIRFilter::process as its caller sees it: process borrows the
\* filter (&self) and the signal (&ArrayBase) immutably and writes only the
\* arrays it creates (padded_coef, output, padded_chunk, y), so the filter
\* and the signal after the call are the ones before it.
ProcessCall(coefs, signal) ==
    [coefficients |-> coefs, signal |-> signal, out |-> Process(coefs, signal)]

\* The filter has 0..MaxM coefficients; src is empty, one sample or a block
\* and a sample of a constant, src2 a signal of two samples.
InitRepeat ==
    /\ coefficients \in Coefficients
    /\ src \in {Extend(pat, len) : pat \in Patterns(1),
                                   len \in {0, 1, BlockLen(Len(coefficients)) + 1}}
    /\ src2 = <<0, 1>>
    /\ ca = CZero
    /\ cb = CZero
    /\ args = NoArgs
    /\ calls = <<>>
    /\ Idle

\* filter.process(&signal) with the signal numbered `which`; calls keeps for
\* every call the coefficients before it, the signal passed, the signal after
\* it and the output.  A panic ends the run.
ProcessOn(which) ==
    /\ Len(ops) < MaxCalls
    /\ (ops # <<>> => cur.ok)
    /\ \E r \in {ProcessCall(coefficients, IF which = 1 THEN src ELSE src2)} :
         /\ coefficients' = r.coefficients
         /\ src' = (IF which = 1 THEN r.signal ELSE src)
         /\ src2' = (IF which = 2 THEN r.signal ELSE src2)
         /\ cur' = r.out
         /\ calls' = Append(calls, [which |-> which,
                                    coefficients |-> coefficients,
                                    signal |-> IF which = 1 THEN src ELSE src2,
                                    after |-> r.signal,
                                    out |-> r.out])
    /\ ops' = Append(ops, "process")
    /\ UNCHANGED <<ca, cb, args, writes>>

CallProcessSrc == ProcessOn(1)
CallProcessSrc2 == ProcessOn(2)

NextRepeat == CallProcessSrc \/ CallProcessSrc2
SpecRepeat == InitRepeat /\ [][NextRepeat]_vars

====
